---- MODULE Spec2Model ----
(***************************************************************************)
(* Wavefront OBJ reading and writing of NURBS curves and surfaces          *)
(* (tinynurbs/io/obj.h).                                                   *)
(*                                                                         *)
(* A file is a sequence of physical lines.  A physical line is a sequence  *)
(* of items: tokens (sequences of characters) and whitespace runs (WS).    *)
(* Two adjacent tokens of a line are separated by one blank; the item WS   *)
(* stands for whitespace that is not followed by a token (trailing         *)
(* whitespace, or a line that holds only whitespace).  The zero-length     *)
(* line is << >>.  Numbers are integers; they are written as decimal       *)
(* character sequences and parsed back character by character.             *)
(***************************************************************************)
EXTENDS Integers, Sequences, FiniteSets, TLC

\* ------------------------------------------------------------------ bounds
\* Coordinates, weights and knots of the objects that are saved range over
\* -1 .. MaxVal.
MaxVal == 1
\* Curves that are saved have 1 .. MaxCp control points, surfaces 1 .. MaxCp
\* by 1 .. 2.
MaxCp == 2
\* Their degrees are 0 .. MaxDeg.
MaxDeg == 1

\* ------------------------------------------------------------ characters
Digits == <<"0", "1", "2", "3", "4", "5", "6", "7", "8", "9">>

IsDigit(c) == \E d \in 1..10 : Digits[d] = c

DigitVal(c) == (CHOOSE d \in 1..10 : Digits[d] = c) - 1

WS == <<" ">>
MARK == <<"\\">>

KW_v == <<"v">>
KW_u == <<"u">>
KW_cstype == <<"c", "s", "t", "y", "p", "e">>
KW_bspline == <<"b", "s", "p", "l", "i", "n", "e">>
KW_rat == <<"r", "a", "t">>
KW_deg == <<"d", "e", "g">>
KW_curv == <<"c", "u", "r", "v">>
KW_surf == <<"s", "u", "r", "f">>
KW_parm == <<"p", "a", "r", "m">>
KW_end == <<"e", "n", "d">>

\* ------------------------------------------------- formatting (operator<<)
RECURSIVE FormatNat(_)
FormatNat(n) ==
    IF n < 10 THEN <<Digits[n + 1]>>
    ELSE FormatNat(n \div 10) \o <<Digits[(n % 10) + 1]>>

\* fout << x for an integral value x
Format(n) == IF n < 0 THEN <<"-">> \o FormatNat(0 - n) ELSE FormatNat(n)

\* --------------------------------------------------- parsing of a number
RECURSIVE DigitRun(_)
\* the longest prefix of cs made of digits
DigitRun(cs) ==
    IF cs # << >> /\ IsDigit(Head(cs)) THEN <<Head(cs)>> \o DigitRun(Tail(cs))
    ELSE << >>

RECURSIVE DigitsVal(_, _)
DigitsVal(cs, acc) ==
    IF cs = << >> THEN acc ELSE DigitsVal(Tail(cs), acc * 10 + DigitVal(Head(cs)))

\* The longest numeric prefix of a token: an optional sign and at least one
\* digit.  ok is FALSE when the token starts with no number; rest is what
\* follows the number in the token.
ParseNum(tok) ==
    LET neg == tok # << >> /\ Head(tok) = "-"
        body == IF neg THEN Tail(tok) ELSE tok
        run == DigitRun(body)
        mag == DigitsVal(run, 0)
    IN  IF run = << >>
        THEN [ok |-> FALSE, val |-> 0, rest |-> tok]
        ELSE [ok |-> TRUE,
              val |-> IF neg THEN 0 - mag ELSE mag,
              rest |-> SubSeq(body, Len(run) + 1, Len(body))]

\* std::stof(token): the number a token starts with; throws
\* std::invalid_argument when it starts with none.  The value is converted
\* to int (indices) or to T (knots); on the integers both are the identity.
StofThrows(tok) == ~ParseNum(tok).ok

Stof(tok) == ParseNum(tok).val

\* ------------------------------------------------ std::istringstream ssline
\* buf: what is left to read; eof, fail: the stream's eofbit and failbit.
RECURSIVE SkipWs(_)
SkipWs(buf) == IF buf # << >> /\ Head(buf) = WS THEN SkipWs(Tail(buf)) ELSE buf

\* ssline.str(sline): a new buffer, the state bits are kept
StreamStr(s, sline) == [s EXCEPT !.buf = sline]

\* ssline.clear() without the reset of the state bits
StreamClearDropped(s) == s

\* ssline.clear()
StreamClear(s) == [s EXCEPT !.eof = FALSE, !.fail = FALSE]

FreshStream == [buf |-> << >>, eof |-> FALSE, fail |-> FALSE]

\* ssline >> str for a std::string: when the sentry fails (a state bit is
\* set, or only whitespace is left) the string keeps its old value.
ExtractString(s, old) ==
    IF s.eof \/ s.fail
    THEN [s |-> [s EXCEPT !.fail = TRUE], val |-> old]
    ELSE LET b == SkipWs(s.buf)
         IN  IF b = << >>
             THEN [s |-> [buf |-> << >>, eof |-> TRUE, fail |-> TRUE], val |-> old]
             ELSE [s |-> [buf |-> Tail(b), eof |-> (Tail(b) = << >>), fail |-> FALSE],
                   val |-> Head(b)]

\* ssline >> x for a number: when the sentry fails x keeps its old value;
\* when the characters read are no number, x becomes 0 and failbit is set;
\* what follows the number in its token stays in the stream.
ExtractNum(s, old) ==
    IF s.eof \/ s.fail
    THEN [s |-> [s EXCEPT !.fail = TRUE], val |-> old]
    ELSE LET b == SkipWs(s.buf)
         IN  IF b = << >>
             THEN [s |-> [buf |-> << >>, eof |-> TRUE, fail |-> TRUE], val |-> old]
             ELSE LET p == ParseNum(Head(b))
                  IN  IF ~p.ok
                      THEN [s |-> [buf |-> b, eof |-> FALSE, fail |-> TRUE], val |-> 0]
                      ELSE [s |-> [buf |-> IF p.rest = << >> THEN Tail(b)
                                           ELSE <<p.rest>> \o Tail(b),
                                   eof |-> (p.rest = << >> /\ Tail(b) = << >>),
                                   fail |-> FALSE],
                            val |-> p.val]

\* ------------------------------------------------------ std::ifstream file
\* std::getline(file, sline).  rd.pos is the next physical line, rd.fstate
\* the file stream's state: "good", "eof" (the last line, which no newline
\* ends, has been read) or "fail".  A getline on a stream that is not good
\* leaves sline as it is; one that finds no character erases it.
GetLine(file, rd) ==
    IF rd.fstate # "good"
    THEN [ok |-> FALSE, rd |-> [rd EXCEPT !.fstate = "fail"]]
    ELSE IF rd.pos <= Len(file.lines)
    THEN [ok |-> TRUE,
          rd |-> [rd EXCEPT !.sline = file.lines[rd.pos],
                            !.pos = rd.pos + 1,
                            !.fstate = IF rd.pos = Len(file.lines) /\ ~file.nl
                                       THEN "eof" ELSE "good"]]
    ELSE [ok |-> FALSE, rd |-> [rd EXCEPT !.sline = << >>, !.fstate = "fail"]]

\* ------------------------------------------- continuation-joined number list
Tokens(line) == SelectSeq(line, LAMBDA it : it # WS)

FirstMark(toks) == CHOOSE k \in 1..Len(toks) :
                      toks[k] = MARK /\ \A j \in 1..(k - 1) : toks[j] # MARK

\* The marker was read and the getline after it left sline as it was: the
\* same physical line is parsed again from its first token, so the loop
\* either meets a token that is no number or never ends.
Replay(rd, acc) ==
    LET toks == Tokens(rd.sline)
        k == FirstMark(toks)
    IN  [ctl |-> IF \E j \in 1..(k - 1) : StofThrows(toks[j])
                 THEN "invalid_argument" ELSE "hang",
         list |-> acc, rd |-> rd]

RECURSIVE ReadList(_, _, _, _)
\* while (ssline >> token) { if (token == "\\") { ssline.clear();
\*   getline(file, sline); ssline.str(sline); } else push_back(stof(token)); }
ReadList(s, file, rd, acc) ==
    LET e == ExtractString(s, << >>)
    IN  IF e.s.fail THEN [ctl |-> "ok", list |-> acc, rd |-> rd]
        ELSE IF e.val = MARK
        THEN LET g == GetLine(file, rd)
             IN  IF rd.fstate # "good"
                 THEN Replay(g.rd, acc)
                 ELSE ReadList(StreamStr(StreamClear(e.s), g.rd.sline), file, g.rd, acc)
        ELSE IF StofThrows(e.val)
        THEN [ctl |-> "invalid_argument", list |-> acc, rd |-> rd]
        ELSE ReadList(e.s, file, rd, Append(acc, Stof(e.val)))

\* ------------------------------------------------------- record handlers
\* A handler gets the line's stream s after the keyword was taken from it,
\* the reader's locals rd and the reference parameters out, and yields
\* [ctl, rd, out]; ctl is "next" (go on with the next line), "break",
\* "invalid_argument" (std::stof threw) or "hang".

RECURSIVE ReadCoords(_, _, _)
\* while (ssline && index <= 3) { ssline >> four_coords[index++]; }
ReadCoords(s, four_coords, index) ==
    IF ~s.fail /\ index <= 3
    THEN LET e == ExtractNum(s, four_coords[index + 1])
         IN  ReadCoords(e.s, [four_coords EXCEPT ![index + 1] = e.val], index + 1)
    ELSE four_coords

\* start == "v"
VHandler(s, rd, out) ==
    LET fc == ReadCoords(s, <<0, 0, 0, 1>>, 0)
    IN  [ctl |-> "next",
         rd |-> [rd EXCEPT !.ctrl_pts_buf = Append(@, <<fc[1], fc[2], fc[3]>>),
                           !.weights_buf = Append(@, fc[4])],
         out |-> out]

\* start == "cstype"
CstypeHandler(s, rd, out) ==
    LET e1 == ExtractString(s, << >>)
        e2 == ExtractString(e1.s, << >>)
    IN  IF e1.val = KW_bspline
        THEN [ctl |-> "next", rd |-> [rd EXCEPT !.parsed.cstype = "true"],
              out |-> [out EXCEPT !.rational = "false"]]
        ELSE IF e1.val = KW_rat /\ e2.val = KW_bspline
        THEN [ctl |-> "next", rd |-> [rd EXCEPT !.parsed.cstype = "true"],
              out |-> [out EXCEPT !.rational = "true"]]
        ELSE [ctl |-> "next", rd |-> rd, out |-> out]

\* start == "deg" in curveReadOBJ: ssline >> deg, deg being the caller's
\* unsigned int.  (Degree tokens of the files read here carry no sign.)
CurveDegHandler(s, rd, out) ==
    LET e == ExtractNum(s, out.deg_u)
    IN  [ctl |-> "next", rd |-> [rd EXCEPT !.parsed.deg = "true"],
         out |-> [out EXCEPT !.deg_u = e.val]]

\* start == "deg" in surfaceReadOBJ: ssline >> deg_u >> deg_v
SurfaceDegHandler(s, rd, out) ==
    LET eu == ExtractNum(s, out.deg_u)
        ev == ExtractNum(eu.s, out.deg_v)
    IN  [ctl |-> "next", rd |-> [rd EXCEPT !.parsed.deg = "true"],
         out |-> [out EXCEPT !.deg_u = eu.val, !.deg_v = ev.val]]

\* what a list loop leaves behind: the list goes to the field the handler
\* names, and the flag is set only when std::stof did not throw
ListDone(r, out, field, flag) ==
    [ctl |-> IF r.ctl = "ok" THEN "next" ELSE r.ctl,
     rd |-> IF r.ctl = "ok"
            THEN [r.rd EXCEPT ![field] = r.list, !.parsed[flag] = "true"]
            ELSE [r.rd EXCEPT ![field] = r.list],
     out |-> out]

\* start == "curv": ssline >> knot_min >> knot_max, then the index list
CurvHandler(s, file, rd, out) ==
    LET e1 == ExtractNum(s, 0)
        e2 == ExtractNum(e1.s, 1)
    IN  ListDone(ReadList(e2.s, file, rd, rd.indices), out, "indices", "body")

\* start == "surf": ssline >> uknot_min >> uknot_max >> vknot_min >> vknot_max
SurfHandler(s, file, rd, out) ==
    LET e1 == ExtractNum(s, 0)
        e2 == ExtractNum(e1.s, 1)
        e3 == ExtractNum(e2.s, 0)
        e4 == ExtractNum(e3.s, 1)
    IN  ListDone(ReadList(e4.s, file, rd, rd.indices), out, "indices", "body")

\* start == "parm" in curveReadOBJ: ssline >> start; only "u" is read
CurveParmHandler(s, file, rd, out) ==
    LET e == ExtractString(s, rd.start)
        rd1 == [rd EXCEPT !.start = e.val]
    IN  IF e.val = KW_u
        THEN ListDone(ReadList(e.s, file, rd1, rd1.temp_uknots), out,
                      "temp_uknots", "parm")
        ELSE [ctl |-> "next", rd |-> [rd1 EXCEPT !.parsed.parm = "true"], out |-> out]

\* start == "parm" in surfaceReadOBJ: ssline >> start; "u" or "v"
SurfaceParmHandler(s, file, rd, out) ==
    LET e == ExtractString(s, rd.start)
        rd1 == [rd EXCEPT !.start = e.val]
    IN  IF e.val = KW_u
        THEN ListDone(ReadList(e.s, file, rd1, rd1.temp_uknots), out,
                      "temp_uknots", "parm")
        ELSE IF e.val = KW_v
        THEN ListDone(ReadList(e.s, file, rd1, rd1.temp_vknots), out,
                      "temp_vknots", "parm")
        ELSE [ctl |-> "next", rd |-> [rd1 EXCEPT !.parsed.parm = "true"], out |-> out]

\* the if / else if chain on start of curveReadOBJ
CurveDispatch(s, file, rd, out) ==
    IF rd.start = KW_v THEN VHandler(s, rd, out)
    ELSE IF rd.start = KW_cstype THEN CstypeHandler(s, rd, out)
    ELSE IF rd.start = KW_deg THEN CurveDegHandler(s, rd, out)
    ELSE IF rd.start = KW_curv THEN CurvHandler(s, file, rd, out)
    ELSE IF rd.start = KW_parm THEN CurveParmHandler(s, file, rd, out)
    ELSE IF rd.start = KW_end THEN [ctl |-> "break", rd |-> rd, out |-> out]
    ELSE [ctl |-> "next", rd |-> rd, out |-> out]

\* the if / else if chain on start of surfaceReadOBJ
SurfaceDispatch(s, file, rd, out) ==
    IF rd.start = KW_v THEN VHandler(s, rd, out)
    ELSE IF rd.start = KW_cstype THEN CstypeHandler(s, rd, out)
    ELSE IF rd.start = KW_deg THEN SurfaceDegHandler(s, rd, out)
    ELSE IF rd.start = KW_surf THEN SurfHandler(s, file, rd, out)
    ELSE IF rd.start = KW_parm THEN SurfaceParmHandler(s, file, rd, out)
    ELSE IF rd.start = KW_end THEN [ctl |-> "break", rd |-> rd, out |-> out]
    ELSE [ctl |-> "next", rd |-> rd, out |-> out]

\* ssline.str(sline); ssline >> start;  then the chain.  The stream's state
\* bits are clear here: every pass that sets them ends in ssline.clear().
ScanRecord(kind, file, rd, out) ==
    LET e == ExtractString(StreamStr(FreshStream, rd.sline), rd.start)
        rd1 == [rd EXCEPT !.start = e.val]
    IN  IF kind = "curve" THEN CurveDispatch(e.s, file, rd1, out)
        ELSE SurfaceDispatch(e.s, file, rd1, out)

\* what a zero-length line does in surfaceReadOBJ; the variant of
\* curveReadOBJ that would stop there too
BlankBreaks(kind) == "break"

\* sline.size() == 0: continue in curveReadOBJ, break in surfaceReadOBJ
OnBlank(kind) == IF kind = "curve" THEN "next" ELSE "break"

\* One pass of while (std::getline(file, sline)) { ... }; ctl "eof" when the
\* getline fails.
ScanPass(kind, file, rd, out) ==
    LET g == GetLine(file, rd)
    IN  IF ~g.ok THEN [ctl |-> "eof", rd |-> g.rd, out |-> out]
        ELSE IF g.rd.sline = << >> THEN [ctl |-> OnBlank(kind), rd |-> g.rd, out |-> out]
        ELSE ScanRecord(kind, file, g.rd, out)

\* ------------------------------------------------- required-record check
FlagNames == {"cstype", "deg", "body", "parm"}

\* The value read from a flag of ToParse parsed.  The struct is never
\* initialised and the scan only ever assigns true, so the read of a flag
\* that no record set is a read of an indeterminate value: it yields either
\* value, ind[f] being the one this run reads.
FlagValue(parsed, f, ind) == IF parsed[f] = "true" THEN TRUE ELSE ind[f]

\* the four checks after file.close(), in their order
RequiredCheck(parsed, ind) ==
    IF ~FlagValue(parsed, "cstype", ind) THEN "cstype missing"
    ELSE IF ~FlagValue(parsed, "deg", ind) THEN "deg missing"
    ELSE IF ~FlagValue(parsed, "body", ind) THEN "curv/surf missing"
    ELSE IF ~FlagValue(parsed, "parm", ind) THEN "parm missing"
    ELSE "ok"

\* ------------------------------------------------------ structure building
\* std::vector::resize(n): the first elements are kept, new ones are
\* value-initialised
Resize(seq, n, dflt) == [i \in 1..n |-> IF i <= Len(seq) THEN seq[i] ELSE dflt]

ZeroPt == <<0, 0, 0>>

Min(S) == CHOOSE x \in S : \A y \in S : x <= y

\* indices[num] is inside indices and indices[num] - 1 inside the vertex
\* pool, num counted from 0
InBounds(rd, num) ==
    /\ num + 1 <= Len(rd.indices)
    /\ rd.indices[num + 1] >= 1
    /\ rd.indices[num + 1] <= Len(rd.ctrl_pts_buf)

\* ctrl_pts_buf[indices[num] - 1]
FillPoint(rd, num) == rd.ctrl_pts_buf[rd.indices[num + 1]]

\* weights_buf[indices[num] - 1], but 1 when the file is not rational
FillWeightUnit(rd, out, num) ==
    IF out.rational = "false" THEN 1 ELSE rd.weights_buf[rd.indices[num + 1]]

\* weights_buf[indices[num] - 1]: the weight is copied whatever the
\* rational flag is
FillWeight(rd, out, num) == rd.weights_buf[rd.indices[num + 1]]

\* The fill loop of curveReadOBJ.  An access outside indices or outside the
\* pool is undefined behaviour: the run either stops there (ub.crash), the
\* elements before it being filled, or goes on with some value ub.val in
\* place of what lies outside.
CurveFill(rd, out, ub) ==
    LET n == Len(rd.temp_uknots) - out.deg_u - 1
        bad == {i \in 1..n : ~InBounds(rd, i - 1)}
        upto == IF bad = {} \/ ~ub.crash THEN n ELSE Min(bad) - 1
        pts == Resize(out.ctrlPts, n, ZeroPt)
        wts == Resize(out.weights, n, 0)
    IN  IF n < 0 THEN [status |-> "length_error", out |-> out]
        ELSE [status |-> IF bad # {} /\ ub.crash THEN "crash" ELSE "ok",
              out |-> [out EXCEPT
                 !.ctrlPts = [i \in 1..n |->
                                IF i > upto THEN pts[i]
                                ELSE IF InBounds(rd, i - 1)
                                THEN FillPoint(rd, i - 1)
                                ELSE <<ub.val, ub.val, ub.val>>],
                 !.weights = [i \in 1..n |->
                                IF i > upto THEN wts[i]
                                ELSE IF InBounds(rd, i - 1)
                                THEN FillWeight(rd, out, i - 1)
                                ELSE ub.val],
                 !.knots_u = IF bad # {} /\ ub.crash THEN out.knots_u
                             ELSE rd.temp_uknots]]

\* array2<T>: rows, cols and the element at (i, j), i < rows, j < cols
Cells(rows, cols) == (0..(rows - 1)) \X (0..(cols - 1))

Array2(rows, cols, at) == [rows |-> rows, cols |-> cols, at |-> at]

\* array2<T> w(rows, cols, T(1))
UnitGrid(rows, cols) == Array2(rows, cols, [p \in Cells(rows, cols) |-> 1])

EmptyArray2 == [rows |-> 0, cols |-> 0, at |-> << >>]

\* array2::resize(rows, cols) cannot make a grid of a negative extent
Array2ResizeThrows(rows, cols) == rows < 0 \/ cols < 0

\* the position in the index list that the fill loop of surfaceReadOBJ uses
\* for grid cell (i, j) if the v-index varied fastest
GridNumVFastest(i, j, num_cp_u, num_cp_v) == i * num_cp_v + j

\* the position in the index list (counted from 0) that the fill loop of
\* surfaceReadOBJ uses for grid cell (i, j): for j, for i, ++num
GridNum(i, j, num_cp_u, num_cp_v) == j * num_cp_u + i

\* The fill loop of surfaceReadOBJ; undefined behaviour as in CurveFill.
SurfaceFill(rd, out, ub) ==
    LET nu == Len(rd.temp_uknots) - out.deg_u - 1
        nv == Len(rd.temp_vknots) - out.deg_v - 1
        Num(i, j) == GridNum(i, j, nu, nv)
        \* the cells in the order the loop visits them
        Order(i, j) == j * nu + i
        bad == {p \in Cells(nu, nv) : ~InBounds(rd, Num(p[1], p[2]))}
        stop == IF bad = {} \/ ~ub.crash THEN nu * nv
                ELSE Min({Order(p[1], p[2]) : p \in bad})
        Pt(i, j) == IF Order(i, j) >= stop THEN ZeroPt
                    ELSE IF InBounds(rd, Num(i, j))
                    THEN FillPoint(rd, Num(i, j))
                    ELSE <<ub.val, ub.val, ub.val>>
        Wt(i, j) == IF Order(i, j) >= stop THEN 0
                    ELSE IF InBounds(rd, Num(i, j))
                    THEN FillWeight(rd, out, Num(i, j))
                    ELSE ub.val
    IN  IF Array2ResizeThrows(nu, nv) THEN [status |-> "length_error", out |-> out]
        ELSE [status |-> IF bad # {} /\ ub.crash THEN "crash" ELSE "ok",
              out |-> [out EXCEPT
                 !.ctrlPts = Array2(nu, nv, [p \in Cells(nu, nv) |-> Pt(p[1], p[2])]),
                 !.weights = Array2(nu, nv, [p \in Cells(nu, nv) |-> Wt(p[1], p[2])]),
                 !.knots_u = IF bad # {} /\ ub.crash THEN out.knots_u
                             ELSE rd.temp_uknots,
                 !.knots_v = IF bad # {} /\ ub.crash THEN out.knots_v
                             ELSE rd.temp_vknots]]

\* --------------------------------------------------------------- writing
\* A geometry object: degree_u, knots_u are a curve's degree and knots;
\* control_points and weights are sequences (curve) or array2 grids
\* (surface).  The types without weights carry weights = NoWeights.
NoWeights == << >>

\* a vertex record written without its weight
VLineNoWeight(pt, w) == <<KW_v, Format(pt[1]), Format(pt[2]), Format(pt[3])>>

\* fout << "v " << x << " " << y << " " << z << " " << w << endl
VLine(pt, w) == <<KW_v, Format(pt[1]), Format(pt[2]), Format(pt[3]), Format(w)>>

CstypeLine(rational) ==
    IF rational THEN <<KW_cstype, KW_rat, KW_bspline>> ELSE <<KW_cstype, KW_bspline>>

\* " " << i + 1 for i < n
IndexList(n) == [i \in 1..n |-> Format(i)]

KnotList(knots) == [i \in 1..Len(knots) |-> Format(knots[i])]

\* internal::curveSaveOBJ.  knots[degree] and knots[n_knots - degree - 1]
\* exist for the curves saved here (len(knots) = n_cp + degree + 1, n_cp >= 1).
\* The file ends with "end" and no newline.
CurveSaveLines(degree, knots, ctrlPts, weights, rational) ==
    [i \in 1..Len(ctrlPts) |-> VLine(ctrlPts[i], weights[i])]
    \o <<CstypeLine(rational)>>
    \o <<<<KW_deg, Format(degree)>>>>
    \o << <<KW_curv, Format(knots[degree + 1]), Format(knots[Len(knots) - degree])>>
          \o IndexList(Len(ctrlPts)) >>
    \o << <<KW_parm, KW_u>> \o KnotList(knots) >>
    \o <<<<KW_end>>>>

\* internal::surfaceSaveOBJ: nothing is written for an empty grid
SurfaceSaveLines(deg_u, deg_v, knots_u, knots_v, ctrlPts, weights, rational) ==
    IF ctrlPts.rows = 0 \/ ctrlPts.cols = 0 THEN << >>
    ELSE
    [k \in 1..(ctrlPts.rows * ctrlPts.cols) |->
        LET i == (k - 1) % ctrlPts.rows
            j == (k - 1) \div ctrlPts.rows
        IN  VLine(ctrlPts.at[<<i, j>>], weights.at[<<i, j>>])]
    \o <<CstypeLine(rational)>>
    \o <<<<KW_deg, Format(deg_u), Format(deg_v)>>>>
    \o << <<KW_surf, Format(knots_u[deg_u + 1]), Format(knots_u[Len(knots_u) - deg_u]),
            Format(knots_v[deg_v + 1]), Format(knots_v[Len(knots_v) - deg_v])>>
          \o IndexList(ctrlPts.rows * ctrlPts.cols) >>
    \o << <<KW_parm, KW_u>> \o KnotList(knots_u) >>
    \o << <<KW_parm, KW_v>> \o KnotList(knots_v) >>
    \o <<<<KW_end>>>>

\* curveSaveOBJ(Curve) and curveSaveOBJ(RationalCurve), dim = 3
CurveSave(type, crv) ==
    IF type = "plain"
    THEN CurveSaveLines(crv.degree_u, crv.knots_u, crv.control_points,
                        [i \in 1..Len(crv.control_points) |-> 1], FALSE)
    ELSE CurveSaveLines(crv.degree_u, crv.knots_u, crv.control_points,
                        crv.weights, TRUE)

\* surfaceSaveOBJ(Surface) and surfaceSaveOBJ(RationalSurface)
SurfaceSave(type, srf) ==
    IF type = "plain"
    THEN SurfaceSaveLines(srf.degree_u, srf.degree_v, srf.knots_u, srf.knots_v,
                          srf.control_points,
                          UnitGrid(srf.control_points.rows, srf.control_points.cols),
                          FALSE)
    ELSE SurfaceSaveLines(srf.degree_u, srf.degree_v, srf.knots_u, srf.knots_v,
                          srf.control_points, srf.weights, TRUE)

\* ------------------------------------------------------------------ state
VARIABLES
    kind,      \* "curve" or "surface": which pair of functions is used
    srcType,   \* "plain" (Curve, Surface) or "rational": type of the object saved
    target,    \* "plain" or "rational": type of the object read into
    src,       \* the object that is saved
    obj,       \* the caller's object as it was before the read call
    file,      \* the file: exists, its physical lines, nl (a newline ends it)
    edit,      \* what was done to the file between the save and the read
    pc,        \* "idle", "scan", "check", "build", "copy", "done"
    status,    \* "running", "ok", or how the read call failed
    rd,        \* the locals of internal::curveReadOBJ / surfaceReadOBJ
    out,       \* what their reference parameters refer to
    crv_cp     \* crv.control_points of the curve read into

vars == <<kind, srcType, target, src, obj, file, edit, pc, status, rd, out, crv_cp>>

\* The locals at the entry of the internal readers.  parsed is not
\* initialised; start is an empty string.
ReaderLocals ==
    [pos |-> 1, fstate |-> "good", sline |-> << >>, start |-> << >>,
     ctrl_pts_buf |-> << >>, weights_buf |-> << >>, indices |-> << >>,
     temp_uknots |-> << >>, temp_vknots |-> << >>,
     parsed |-> [f \in FlagNames |-> "indeterminate"]]

\* What the wrappers pass: the object's degree(s) and knots by reference; a
\* local control_points vector (curves) or the object's grid (surfaces); the
\* object's weights (rational types) or a local container; a local bool rat
\* that is not initialised.
Bind(k, tgt, o) ==
    [deg_u |-> o.degree_u, deg_v |-> o.degree_v,
     knots_u |-> o.knots_u, knots_v |-> o.knots_v,
     ctrlPts |-> IF k = "curve" THEN << >> ELSE o.control_points,
     weights |-> IF tgt = "rational" THEN o.weights
                 ELSE IF k = "curve" THEN << >> ELSE EmptyArray2,
     rational |-> "indeterminate"]

\* the caller's object as the caller sees it now
Caller ==
    [degree_u |-> out.deg_u, degree_v |-> out.deg_v,
     knots_u |-> out.knots_u, knots_v |-> out.knots_v,
     control_points |-> IF kind = "curve" THEN crv_cp ELSE out.ctrlPts,
     weights |-> IF target = "rational" THEN out.weights ELSE NoWeights]

NoEdit == [op |-> "none"]

\* ------------------------------------------------------------- the objects
Kinds == {"curve", "surface"}
Types == {"plain", "rational"}

\* nondecreasing knot vectors of length n over {0, MaxVal}
KnotVectors(n) == {[i \in 1..n |-> IF i <= k THEN 0 ELSE MaxVal] : k \in 0..n}

PointVals == {<<x, y, 0 - 1>> : x \in {0 - 1, MaxVal}, y \in {0, MaxVal}}
WeightVals == {1, MaxVal + 1}

\* the curves with 1..MaxCp control points and degree 0..MaxDeg
CurveObjects(type) ==
    UNION {
      {[degree_u |-> d, degree_v |-> 0, knots_u |-> ks, knots_v |-> << >>,
        control_points |-> cps, weights |-> ws] :
          ks \in KnotVectors(n + d + 1),
          cps \in [1..n -> PointVals],
          ws \in IF type = "rational" THEN [1..n -> WeightVals] ELSE {NoWeights}}
      : n \in 1..MaxCp, d \in 0..MaxDeg}

\* The surfaces with a grid of 1..MaxCp by 1..2 control points and degrees
\* 0..MaxDeg: the point at (i, j) is <<i, j, -MaxVal>>, and at most one weight, the
\* one of cell h in the order of writing, is not 1.
SurfaceObjects(type) ==
    UNION {
      {[degree_u |-> du, degree_v |-> dv, knots_u |-> ku, knots_v |-> kv,
        control_points |->
            Array2(nu, nv, [p \in Cells(nu, nv) |-> <<p[1], p[2], 0 - MaxVal>>]),
        weights |-> IF type = "rational"
                    THEN Array2(nu, nv, [p \in Cells(nu, nv) |->
                                   IF p[2] * nu + p[1] = h THEN MaxVal + 1 ELSE 1])
                    ELSE NoWeights] :
          ku \in KnotVectors(nu + du + 1),
          kv \in KnotVectors(nv + dv + 1),
          h \in IF type = "rational" THEN 0..(nu * nv) ELSE {0}}
      : nu \in 1..MaxCp, nv \in 1..2, du \in 0..MaxDeg, dv \in 0..MaxDeg}

\* one curve and one surface (2 by 3) whose files are then edited
BaseCurve(type) ==
    [degree_u |-> 1, degree_v |-> 0, knots_u |-> <<0, 0, 1, 1>>, knots_v |-> << >>,
     control_points |-> <<<<10, 0, 0 - 1>>, <<0, 2, 3>>>>,
     weights |-> IF type = "rational" THEN <<2, 3>> ELSE NoWeights]

BaseSurface(type) ==
    [degree_u |-> 1, degree_v |-> 1,
     knots_u |-> <<0, 0, 1, 1>>, knots_v |-> <<0, 0, 1, 2, 2>>,
     control_points |->
        Array2(2, 3, [p \in Cells(2, 3) |-> <<p[1], p[2], 10 + p[1] + 2 * p[2]>>]),
     weights |-> IF type = "rational"
                 THEN Array2(2, 3, [p \in Cells(2, 3) |-> 2 + p[1] + 2 * p[2]]) ELSE NoWeights]

\* what the caller's object may hold before the read: nothing, or an older
\* curve / surface
PriorObjects(k, type) ==
    IF k = "curve"
    THEN {[degree_u |-> 0, degree_v |-> 0, knots_u |-> << >>, knots_v |-> << >>,
           control_points |-> << >>, weights |-> NoWeights],
          [degree_u |-> 2, degree_v |-> 0, knots_u |-> <<0, 0, 0, 5, 5, 5>>,
           knots_v |-> << >>,
           control_points |-> <<<<5, 5, 5>>, <<6, 6, 6>>, <<7, 7, 7>>>>,
           weights |-> IF type = "rational" THEN <<4, 4, 4>> ELSE NoWeights]}
    ELSE {[degree_u |-> 0, degree_v |-> 0, knots_u |-> << >>, knots_v |-> << >>,
           control_points |-> EmptyArray2,
           weights |-> IF type = "rational" THEN EmptyArray2 ELSE NoWeights],
          [degree_u |-> 2, degree_v |-> 0, knots_u |-> <<0, 0, 0, 5, 5, 5>>,
           knots_v |-> <<0, 5>>,
           control_points |-> Array2(3, 1, [p \in Cells(3, 1) |-> <<5, 5, 5>>]),
           weights |-> IF type = "rational"
                       THEN Array2(3, 1, [p \in Cells(3, 1) |-> 4]) ELSE NoWeights]}

\* ------------------------------------------------- edits of a saved file
RemoveAt(seq, k) == SubSeq(seq, 1, k - 1) \o SubSeq(seq, k + 1, Len(seq))

InsertAt(seq, k, x) == SubSeq(seq, 1, k - 1) \o <<x>> \o SubSeq(seq, k, Len(seq))

Max(S) == CHOOSE x \in S : \A y \in S : x >= y

\* the number of tokens of a list record that come before its list, 0 for
\* the lines that hold no list
ListHeader(line) ==
    IF line = << >> THEN 0
    ELSE IF Head(line) = KW_curv THEN 3
    ELSE IF Head(line) = KW_surf THEN 5
    ELSE IF Head(line) = KW_parm THEN 2
    ELSE 0

RECURSIVE SplitLine(_, _)
\* the physical lines that a line becomes when it is broken after each of
\* its tokens at the positions S, a continuation marker ending every line
\* but the last
SplitLine(line, S) ==
    IF S = {} THEN <<line>>
    ELSE LET p == Max(S)
         IN  SplitLine(SubSeq(line, 1, p) \o <<MARK>>, S \ {p})
             \o <<SubSeq(line, p + 1, Len(line))>>

\* what a field is replaced by: a token that is no number, an index that no
\* vertex has, a small number
Replacements == {<<"x">>, <<"9">>, <<"2">>}

\* the lines up to the list record l, its list broken after token p, and a
\* continuation marker at the end of both parts: the file ends in a marker
Runaway(ls, l, p) ==
    SubSeq(ls, 1, l - 1)
    \o <<SubSeq(ls[l], 1, p) \o <<MARK>>, SubSeq(ls[l], p + 1, Len(ls[l])) \o <<MARK>>>>

\* the edits of the lines ls: drop every record of a keyword; replace a field
\* by another token; delete a field; insert a zero-length or a
\* whitespace-only line; split the list of a list record; end a line with a
\* continuation marker; end the file with a newline; end the file in the
\* middle of a continued list
Edits(ls) ==
    {[op |-> "newline"]}
    \cup {[op |-> "mark", l |-> l] : l \in 1..Len(ls)}
    \cup UNION {{[op |-> "runaway", l |-> l, p |-> p] :
                  p \in ListHeader(ls[l])..(Len(ls[l]) - 1)}
                : l \in {m \in 1..Len(ls) : ListHeader(ls[m]) > 0}}
    \cup
    {[op |-> "dropkw", kw |-> kw] : kw \in {Head(ls[l]) : l \in 1..Len(ls)}}
    \cup UNION {{[op |-> "replace", l |-> l, j |-> j, tok |-> g] :
                  j \in 2..Len(ls[l]), g \in Replacements} : l \in 1..Len(ls)}
    \cup UNION {{[op |-> "delete", l |-> l, j |-> j] :
                  j \in 2..Len(ls[l])} : l \in 1..Len(ls)}
    \cup {[op |-> "insert", l |-> l, line |-> ln] :
            l \in 1..Len(ls), ln \in {<< >>, <<WS>>}}
    \cup UNION {{[op |-> "split", l |-> l, at |-> S] :
                  S \in (SUBSET (ListHeader(ls[l])..(Len(ls[l]) - 1))) \ {{}}}
                : l \in {m \in 1..Len(ls) : ListHeader(ls[m]) > 0}}

ApplyEdit(e, ls) ==
    IF e.op = "dropkw" THEN SelectSeq(ls, LAMBDA ln : Head(ln) # e.kw)
    ELSE IF e.op = "replace" THEN [ls EXCEPT ![e.l][e.j] = e.tok]
    ELSE IF e.op = "delete" THEN [ls EXCEPT ![e.l] = RemoveAt(@, e.j)]
    ELSE IF e.op = "insert" THEN InsertAt(ls, e.l, e.line)
    ELSE IF e.op = "split"
    THEN SubSeq(ls, 1, e.l - 1) \o SplitLine(ls[e.l], e.at)
         \o SubSeq(ls, e.l + 1, Len(ls))
    ELSE IF e.op = "mark" THEN [ls EXCEPT ![e.l] = Append(@, MARK)]
    ELSE IF e.op = "runaway" THEN Runaway(ls, e.l, e.p)
    ELSE ls

\* ---------------------------------------------------------------- actions
UBOutcomes ==
    {[crash |-> TRUE, val |-> 0]} \cup {[crash |-> FALSE, val |-> v] : v \in {0, 7}}

\* curveSaveOBJ / surfaceSaveOBJ of src
Save ==
    /\ pc = "idle"
    /\ ~file.exists
    /\ file' = [exists |-> TRUE,
                lines |-> IF kind = "curve" THEN CurveSave(srcType, src)
                          ELSE SurfaceSave(srcType, src),
                nl |-> FALSE]
    /\ UNCHANGED <<kind, srcType, target, src, obj, edit, pc, status, rd, out, crv_cp>>

\* the saved file is edited once before it is read
Tamper ==
    /\ pc = "idle"
    /\ file.exists
    /\ edit = NoEdit
    /\ \E e \in Edits(file.lines) :
          /\ edit' = e
          /\ file' = [file EXCEPT !.lines = ApplyEdit(e, file.lines),
                                  !.nl = (e.op = "newline")]
    /\ UNCHANGED <<kind, srcType, target, src, obj, pc, status, rd, out, crv_cp>>

\* curveReadOBJ / surfaceReadOBJ is called on obj: std::ifstream file(filename)
Open ==
    /\ pc = "idle"
    /\ IF file.exists
       THEN pc' = "scan" /\ status' = status
       ELSE pc' = "done" /\ status' = "File not found"
    /\ UNCHANGED <<kind, srcType, target, src, obj, file, edit, rd, out, crv_cp>>

\* one pass of the scan loop
Scan ==
    /\ pc = "scan"
    /\ LET r == ScanPass(kind, file, rd, out)
       IN  /\ rd' = r.rd
           /\ out' = r.out
           /\ pc' = IF r.ctl = "next" THEN "scan"
                    ELSE IF r.ctl \in {"break", "eof"} THEN "check"
                    ELSE "done"
           /\ status' = IF r.ctl \in {"next", "break", "eof"} THEN status ELSE r.ctl
    /\ UNCHANGED <<kind, srcType, target, src, obj, file, edit, crv_cp>>

\* file.close() and the four checks of parsed
CheckRequired ==
    /\ pc = "check"
    /\ \E ind \in [FlagNames -> BOOLEAN] :
          LET s == RequiredCheck(rd.parsed, ind)
          IN  /\ pc' = IF s = "ok" THEN "build" ELSE "done"
              /\ status' = IF s = "ok" THEN status ELSE s
    /\ UNCHANGED <<kind, srcType, target, src, obj, file, edit, rd, out, crv_cp>>

\* resize and fill of internal::curveReadOBJ, knots = temp_knots
CurveBuild ==
    /\ pc = "build"
    /\ kind = "curve"
    /\ \E ub \in UBOutcomes :
          LET r == CurveFill(rd, out, ub)
          IN  /\ out' = r.out
              /\ pc' = IF r.status = "ok" THEN "copy" ELSE "done"
              /\ status' = IF r.status = "ok" THEN status ELSE r.status
    /\ UNCHANGED <<kind, srcType, target, src, obj, file, edit, rd, crv_cp>>

\* resize and fill of internal::surfaceReadOBJ; the wrappers do nothing more
SurfaceBuild ==
    /\ pc = "build"
    /\ kind = "surface"
    /\ \E ub \in UBOutcomes :
          LET r == SurfaceFill(rd, out, ub)
          IN  /\ out' = r.out
              /\ pc' = "done"
              /\ status' = r.status
    /\ UNCHANGED <<kind, srcType, target, src, obj, file, edit, rd, crv_cp>>

\* the curve wrappers copy coordinates 0 .. dim - 1 into crv (dim = 3)
CurveCopy ==
    /\ pc = "copy"
    /\ crv_cp' = out.ctrlPts
    /\ pc' = "done"
    /\ status' = "ok"
    /\ UNCHANGED <<kind, srcType, target, src, obj, file, edit, rd, out>>

InitCommon ==
    /\ kind \in Kinds
    /\ srcType \in Types
    /\ target \in Types
    /\ obj \in PriorObjects(kind, target)
    /\ file = [exists |-> FALSE, lines |-> << >>, nl |-> FALSE]
    /\ edit = NoEdit
    /\ pc = "idle"
    /\ status = "running"
    /\ rd = ReaderLocals
    /\ out = Bind(kind, target, obj)
    /\ crv_cp = IF kind = "curve" THEN obj.control_points ELSE << >>

Read == Open \/ Scan \/ CheckRequired \/ CurveBuild \/ SurfaceBuild \/ CurveCopy

\* a file is saved from one object, edited, and read
Init ==
    /\ InitCommon
    /\ src = IF kind = "curve" THEN BaseCurve(srcType) ELSE BaseSurface(srcType)

Next == Save \/ Tamper \/ Read

Spec == Init /\ [][Next]_vars

\* an object is saved and the file read back into an object of its type
InitRT ==
    /\ InitCommon
    /\ target = srcType
    /\ src \in IF kind = "curve" THEN CurveObjects(srcType) ELSE SurfaceObjects(srcType)

NextRT == Save \/ Read

SpecRT == InitRT /\ [][NextRT]_vars

\* ---------------------------------------------------- reference results
RECURSIVE ScanAll(_, _, _, _)
\* the scan loop run to its end on the file f
ScanAll(k, f, r, o) ==
    LET p == ScanPass(k, f, r, o)
    IN  IF p.ctl = "next" THEN ScanAll(k, f, p.rd, p.out) ELSE p

\* the lines the save wrote, before any edit
SavedLines == IF kind = "curve" THEN CurveSave(srcType, src) ELSE SurfaceSave(srcType, src)

\* the scan of the lines ls by the reader that is running
ScanOf(ls) ==
    ScanAll(kind, [exists |-> TRUE, lines |-> ls, nl |-> FALSE],
            ReaderLocals, Bind(kind, target, obj))

\* what the scan has gathered: everything but the position in the file
ParseView(r) ==
    [start |-> r.start, ctrl_pts_buf |-> r.ctrl_pts_buf, weights_buf |-> r.weights_buf,
     indices |-> r.indices, temp_uknots |-> r.temp_uknots,
     temp_vknots |-> r.temp_vknots, parsed |-> r.parsed]

\* the object a successful read of the saved file gives a caller of type tgt
Expected(tgt) ==
    [src EXCEPT !.weights =
        IF tgt # "rational" THEN NoWeights
        ELSE IF srcType = "rational" THEN src.weights
        ELSE IF kind = "curve" THEN [i \in 1..Len(src.control_points) |-> 1]
        ELSE UnitGrid(src.control_points.rows, src.control_points.cols)]

\* the number of control points the build fills
FillCount ==
    IF kind = "curve" THEN Len(rd.temp_uknots) - out.deg_u - 1
    ELSE (Len(rd.temp_uknots) - out.deg_u - 1) * (Len(rd.temp_vknots) - out.deg_v - 1)

\* the build reads outside the index list or outside the vertex pool
ReadsOutside == \E num \in 0..(FillCount - 1) : ~InBounds(rd, num)

ErrorStatuses ==
    {"File not found", "cstype missing", "deg missing", "curv/surf missing",
     "parm missing", "invalid_argument", "length_error"}

\* -------------------------------------------------------------- properties

\* C1: an object that is saved and read back from the written file gives a
\* successful read with the same degree(s), knot vector(s), control points at
\* the same positions, rational flag and, for the rational types, weights.
C1_RoundTrip ==
    (pc = "done" /\ file.exists) =>
        /\ status = "ok"
        /\ Caller = src
        /\ out.rational = (IF srcType = "rational" THEN "true" ELSE "false")

\* C1 witness: a rational surface with more than one control point along u
\* and a weight that is not 1 has been read back
C1_Witness ==
    /\ pc = "done" /\ file.exists /\ status = "ok"
    /\ kind = "surface" /\ srcType = "rational"
    /\ src.control_points.rows = MaxCp /\ src.control_points.cols = 2
    /\ src.weights.at[<<1, 1>>] = MaxVal + 1
    /\ Caller.weights.at[<<1, 1>>] = MaxVal + 1

\* C2: when every record of one required keyword is missing from the file,
\* the read ends with the error that names that keyword.
C2_MissingSection ==
    (pc = "done" /\ edit.op = "dropkw") =>
        /\ edit.kw = KW_cstype => status = "cstype missing"
        /\ edit.kw = KW_deg => status = "deg missing"
        /\ edit.kw \in {KW_curv, KW_surf} => status = "curv/surf missing"
        /\ edit.kw = KW_parm => status = "parm missing"

\* C3: a read whose build needs an index that the index list does not hold,
\* or whose index names no vertex of the pool, ends with an error: it
\* neither completes nor reads outside.
C3_IndexBounds ==
    (pc = "done" /\ status \in {"ok", "crash"}) => ~ReadsOutside

\* C4: when the read ends with an error, the caller's object is as it was
\* before the call.
C4_NoPartialOutput ==
    (pc = "done" /\ status \in ErrorStatuses) => Caller = obj

\* C5: with the list of a curv / surf / parm record split over several
\* physical lines by continuation markers, the scan gathers what it gathers
\* from the unbroken file (index list, knots and everything else), and the
\* read gives the same object.
C5_Continuation ==
    /\ (pc = "check" /\ edit.op = "split") =>
          /\ ParseView(rd) = ParseView(ScanOf(SavedLines).rd)
          /\ out = ScanOf(SavedLines).out
    /\ (pc = "done" /\ edit.op = "split") =>
          /\ status = "ok"
          /\ Caller = Expected(target)

\* C5 witness: a surface whose index list was split in at least two places
\* has been read
C5_Witness ==
    /\ pc = "done" /\ status = "ok" /\ kind = "surface"
    /\ edit.op = "split" /\ Cardinality(edit.at) >= 2
    /\ Head(SavedLines[edit.l]) = KW_surf
    /\ rd.indices = <<1, 2, 3, 4, 5, 6>>

\* C6: in a surface that was read, the k-th entry of the index list (k from
\* 0) is at grid position (k mod nU, k div nU), point and weight alike.
C6_GridOrdering ==
    (pc = "done" /\ kind = "surface" /\ status = "ok" /\ ~ReadsOutside) =>
        LET nu == Len(rd.temp_uknots) - out.deg_u - 1
            nv == Len(rd.temp_vknots) - out.deg_v - 1
        IN  /\ out.ctrlPts.rows = nu /\ out.ctrlPts.cols = nv
            /\ \A k \in 0..(nu * nv - 1) :
                  /\ out.ctrlPts.at[<<k % nu, k \div nu>>]
                        = rd.ctrl_pts_buf[rd.indices[k + 1]]
                  /\ out.weights.at[<<k % nu, k \div nu>>]
                        = rd.weights_buf[rd.indices[k + 1]]

\* C6 witness: nU = 2, nV = 3 and the index list 1 2 3 4 5 6: (1,0) holds
\* vertex 2, (0,1) vertex 3 and (1,2) vertex 6
C6_Witness ==
    /\ pc = "done" /\ kind = "surface" /\ status = "ok" /\ edit = NoEdit
    /\ rd.indices = <<1, 2, 3, 4, 5, 6>>
    /\ out.ctrlPts.rows = 2 /\ out.ctrlPts.cols = 3
    /\ out.ctrlPts.at[<<1, 0>>] = rd.ctrl_pts_buf[2]
    /\ out.ctrlPts.at[<<0, 1>>] = rd.ctrl_pts_buf[3]
    /\ out.ctrlPts.at[<<1, 2>>] = rd.ctrl_pts_buf[6]
    /\ rd.ctrl_pts_buf[2] # rd.ctrl_pts_buf[3]

\* the field at position j of a record with this keyword is numeric
NumericField(kw, j) ==
    \/ kw \in {KW_v, KW_deg, KW_curv, KW_surf} /\ j >= 2
    \/ kw = KW_parm /\ j >= 3

\* C7: when a numeric field of a recognized record holds a token that is no
\* number, the read fails with a parse error.
C7_MalformedToken ==
    (/\ pc = "done"
     /\ edit.op = "replace" /\ edit.tok = <<"x">>
     /\ NumericField(Head(SavedLines[edit.l]), edit.j)) =>
        status = "invalid_argument"

\* C8 as claimed: from a file that declares cstype bspline, every weight that
\* the read returns is 1.
C8_UnitWeights ==
    (pc = "done" /\ status = "ok" /\ out.rational = "false" /\ ~ReadsOutside) =>
        IF kind = "curve"
        THEN \A i \in 1..Len(out.weights) : out.weights[i] = 1
        ELSE \A p \in Cells(out.weights.rows, out.weights.cols) : out.weights.at[p] = 1

\* C8 amended: from a file that declares cstype bspline, a read that
\* completes with every index in range leaves in the weight container of the
\* internal readers, and with it in the weights of a RationalCurve or
\* RationalSurface, at each position the weight that the v handler stored in
\* the vertex pool for the vertex the index list names there; the Curve and
\* Surface wrappers drop the container.
C8_WeightsCopied ==
    (pc = "done" /\ status = "ok" /\ out.rational = "false" /\ ~ReadsOutside) =>
        /\ IF kind = "curve"
           THEN /\ Len(out.weights) = FillCount
                /\ \A i \in 1..FillCount :
                      out.weights[i] = rd.weights_buf[rd.indices[i]]
           ELSE /\ out.weights.rows * out.weights.cols = FillCount
                /\ \A p \in Cells(out.weights.rows, out.weights.cols) :
                      out.weights.at[p]
                         = rd.weights_buf[rd.indices[p[2] * out.weights.rows + p[1] + 1]]
        /\ Caller.weights = (IF target = "rational" THEN out.weights ELSE NoWeights)

\* C8 witness: a RationalCurve was read from a cstype bspline file whose v
\* records carry the weights 2 and 3
C8_Witness ==
    /\ pc = "done" /\ status = "ok" /\ out.rational = "false"
    /\ kind = "curve" /\ target = "rational"
    /\ rd.weights_buf = <<2, 3>>
    /\ Caller.weights = <<2, 3>>

\* C9 as claimed: in curveReadOBJ the first zero-length line ends the scan:
\* what the scan has gathered is what the lines before that line give.
C9_BlankTerminates ==
    (pc = "check" /\ kind = "curve" /\ edit.op = "insert" /\ edit.line = << >>) =>
        /\ ParseView(rd) = ParseView(ScanOf(SubSeq(SavedLines, 1, edit.l - 1)).rd)
        /\ out = ScanOf(SubSeq(SavedLines, 1, edit.l - 1)).out

\* C9 amended: in curveReadOBJ a zero-length line that the scan loop reads is
\* skipped: the scan goes on with the records after it and gathers what it
\* gathers from the file without that line, and the read gives the same
\* object.
C9_BlankSkipped ==
    /\ (pc = "check" /\ kind = "curve" /\ edit.op = "insert" /\ edit.line = << >>) =>
          /\ ParseView(rd) = ParseView(ScanOf(SavedLines).rd)
          /\ out = ScanOf(SavedLines).out
    /\ (pc = "done" /\ kind = "curve" /\ edit.op = "insert" /\ edit.line = << >>) =>
          /\ status = "ok"
          /\ Caller = Expected(target)

\* C9 witness: a curve was read from a file with a zero-length line before
\* its deg record
C9_Witness ==
    /\ pc = "done" /\ kind = "curve" /\ status = "ok"
    /\ edit.op = "insert" /\ edit.line = << >>
    /\ Head(SavedLines[edit.l]) = KW_deg
    /\ out.deg_u = 1 /\ Len(crv_cp) = 2

\* C10: a line that holds only whitespace changes nothing: the scan gathers
\* what it gathers from the file without that line.
C10_WhitespaceLine ==
    (pc = "check" /\ edit.op = "insert" /\ edit.line = <<WS>>) =>
        /\ ParseView(rd) = ParseView(ScanOf(SavedLines).rd)
        /\ out = ScanOf(SavedLines).out

====
